---- MODULE Spec2Model ----
(***************************************************************************)
(* PiGame 0.1.2 (PiGameTest1.py): tile map, spawn selection, player input, *)
(* axis-separated wall collision, world clamp and camera of the main loop. *)
(*                                                                         *)
(* Numbers.  The program computes positions in floating point.  Every      *)
(* value it can produce from the speeds 2.0 and 4.0 lies in Q(sqrt 2), so  *)
(* a number is modelled exactly as a triple <<a, b, d>> standing for       *)
(* (a + b*sqrt(2)) / d with d > 0 and gcd(a, b, d) = 1.  Rounding error of *)
(* IEEE doubles (of the order 1e-16) is not modelled.                      *)
(***************************************************************************)
EXTENDS Integers, Sequences, FiniteSets, TLC

\* ------------------------------------------------------------ configuration
SCREEN_WIDTH == 640
SCREEN_HEIGHT == 480
TILE_SIZE == 32
WALK_SPEED == 2
SPRINT_SPEED == 4
CAMERA_X == SCREEN_WIDTH \div 2
CAMERA_Y == SCREEN_HEIGHT \div 2

\* tile codes of map_data, as named by TILE_ASSETS
GRASS == "GRASS"
WALL == "WALL"
STAIRS == "STAIRS"
DOOR == "DOOR"
SPAWN == "SPAWN"

\* Largest |b| a world coordinate (a + b*sqrt 2) may carry: bounds the number
\* of diagonal steps that are not yet undone by a clamp.
MaxDiag == 2

\* ------------------------------------------------------- exact arithmetic
Abs(n) == IF n < 0 THEN -n ELSE n

RECURSIVE Gcd(_, _)
Gcd(m, n) == IF n = 0 THEN m ELSE Gcd(n, m % n)

\* largest r with r*r <= k
ISqrt(k) == CHOOSE r \in 0..k : r * r <= k /\ (r + 1) * (r + 1) > k

QNorm(a, b, d) ==
    LET s == IF d < 0 THEN -1 ELSE 1
        g == Gcd(Gcd(Abs(a), Abs(b)), Abs(d))
    IN  <<(s * a) \div g, (s * b) \div g, (s * d) \div g>>

Q(n) == <<n, 0, 1>>

QAdd(x, y) == QNorm(x[1] * y[3] + y[1] * x[3], x[2] * y[3] + y[2] * x[3], x[3] * y[3])
QNeg(x) == <<-x[1], -x[2], x[3]>>
QSub(x, y) == QAdd(x, QNeg(y))
QMul(x, y) ==
    QNorm(x[1] * y[1] + 2 * x[2] * y[2], x[1] * y[2] + x[2] * y[1], x[3] * y[3])
\* x / y, y /= 0: multiply by the conjugate of y
QDiv(x, y) ==
    LET n == y[1] * y[1] - 2 * y[2] * y[2]
        c == <<y[1] * y[3], -(y[2] * y[3]), 1>>
        p == QMul(<<x[1], x[2], 1>>, c)
    IN  QNorm(p[1], p[2], x[3] * n)

\* sign of a + b*sqrt 2
QSign(x) ==
    LET a == x[1]
        b == x[2]
    IN  IF a = 0 /\ b = 0 THEN 0
        ELSE IF a >= 0 /\ b >= 0 THEN 1
        ELSE IF a <= 0 /\ b <= 0 THEN -1
        ELSE IF a > 0 THEN (IF a * a > 2 * b * b THEN 1 ELSE -1)
        ELSE (IF 2 * b * b > a * a THEN 1 ELSE -1)

QLess(x, y) == QSign(QSub(x, y)) < 0
QMin(x, y) == IF QLess(y, x) THEN y ELSE x
QMax(x, y) == IF QLess(x, y) THEN y ELSE x

\* math.sqrt of a non-negative integer that is a square or twice a square
QSqrt(x) ==
    LET k == x[1]
        r == ISqrt(k)
        h == ISqrt(k \div 2)
    IN  IF r * r = k THEN <<r, 0, 1>> ELSE <<0, h, 1>>

\* floor of b*sqrt 2 (b*sqrt 2 is no integer unless b = 0)
FloorRoot2(b) ==
    IF b >= 0 THEN ISqrt(2 * b * b) ELSE -ISqrt(2 * b * b) - 1

\* int(x // n) for an integer n > 0
QFloorDiv(x, n) == (x[1] + FloorRoot2(x[2])) \div (x[3] * n)

\* ------------------------------------------------------------ map data
\* A wall-filled w x h grid with the given spawn and floor cells (col, row).
WalledMap(w, h, spawns, floors) ==
    [r \in 1..h |-> [c \in 1..w |->
        IF <<c - 1, r - 1>> \in spawns THEN SPAWN
        ELSE IF <<c - 1, r - 1>> \in floors THEN GRASS
        ELSE WALL]]

\* Candidate values of map_data.MAP_COLLECTION["map1"].
MapCorner == << <<SPAWN, SPAWN>>, <<STAIRS, WALL>> >>
MapOneSpawn ==
    << <<WALL, WALL, WALL>>, <<WALL, WALL, WALL>>, <<WALL, WALL, WALL>>,
       <<WALL, DOOR, SPAWN>> >>
MapNoSpawn == << <<WALL, GRASS>> >>
MapRagged == << <<SPAWN, GRASS>>, <<GRASS>> >>
MapRaggedWide == << <<SPAWN>>, <<WALL, GRASS>> >>
MapExact == WalledMap(20, 15, {<<3, 3>>}, {})
MapLarge == WalledMap(21, 16, {<<0, 0>>, <<20, 15>>}, {})
MapWide == WalledMap(21, 1, {<<10, 0>>}, {<<11, 0>>})
MapTall == WalledMap(1, 16, {<<0, 7>>}, {<<0, 8>>})

\* map_data.MAP_COLLECTION: the grid each candidate definition of the map holds
MAP_COLLECTION ==
    [corner |-> MapCorner, onespawn |-> MapOneSpawn, nospawn |-> MapNoSpawn,
     ragged |-> MapRagged, raggedwide |-> MapRaggedWide, exact |-> MapExact,
     large |-> MapLarge, wide |-> MapWide, tall |-> MapTall]

IsRectangular(ma) == \A r \in 1..Len(ma) : Len(ma[r]) = Len(ma[1])

\* ------------------------------------------------------------------ state
VARIABLES
    map_name,           \* the entry of MAP_COLLECTION that main loads
    map_array,          \* Map.map_array: a reference to that entry, once built
    height,             \* Map.height
    width,              \* Map.width
    start,              \* (start_x, start_y) of main
    action_state,       \* InputManager.action_state
    world_x,            \* Player.world_x
    world_y,            \* Player.world_y
    current_speed,      \* Player.current_speed
    current_direction,  \* Player.current_direction
    change_x,           \* Player.change_x
    change_y,           \* Player.change_y
    dx,                 \* dx of Player.update, 0 once the call is over
    dy,                 \* dy of Player.update, 0 once the call is over
    camera_offset_x,    \* camera_offset_x of main
    camera_offset_y,    \* camera_offset_y of main
    pc                  \* position in main

vars ==
    <<map_name, map_array, height, width, start, action_state, world_x, world_y,
      current_speed, current_direction, change_x, change_y, dx, dy,
      camera_offset_x, camera_offset_y, pc>>

mapVars == <<map_name, map_array, height, width, start>>
playerVars ==
    <<world_x, world_y, current_speed, current_direction, change_x, change_y, dx, dy>>
cameraVars == <<camera_offset_x, camera_offset_y>>

\* the movement actions of InputManager.action_state (action_a and action_y
\* only print and are left out)
Actions == {"up", "down", "left", "right", "sprint"}
NoneHeld == [a \in Actions |-> FALSE]

\* rect.width, rect.height: every sprite is scaled to TILE_SIZE x TILE_SIZE
rect_width == TILE_SIZE
rect_height == TILE_SIZE

Init ==
    /\ map_name \in DOMAIN MAP_COLLECTION
    /\ map_array = "None"
    /\ height = 0
    /\ width = 0
    /\ start = <<0, 0>>
    /\ action_state = NoneHeld
    /\ world_x = Q(0)
    /\ world_y = Q(0)
    /\ current_speed = Q(WALK_SPEED)
    /\ current_direction = "down"
    /\ change_x = Q(0)
    /\ change_y = Q(0)
    /\ dx = Q(0)
    /\ dy = Q(0)
    /\ camera_offset_x = Q(0)
    /\ camera_offset_y = Q(0)
    /\ pc = "construct"

\* ------------------------------------------------------------------- Map
\* Map.__init__: height is the number of rows, width the length of row 0.
MapWidth(ma) == Len(ma[1])
MapHeight(ma) == Len(ma)

MapInit ==
    /\ pc = "construct"
    /\ map_array' = map_name
    /\ height' = MapHeight(MAP_COLLECTION[map_name])
    /\ width' = MapWidth(MAP_COLLECTION[map_name])
    /\ pc' = "spawn"
    /\ UNCHANGED <<map_name, start, action_state, playerVars, cameraVars>>

\* the grid behind a Map.map_array reference
Grid(ref) == MAP_COLLECTION[ref]

\* ----------------------------------------------------------------- spawn
\* the pixel coordinate with the two indices exchanged
SpawnPixelSwapped(col_index, row_index) ==
    <<row_index * TILE_SIZE, col_index * TILE_SIZE>>

\* the pixel coordinate collected for the SPAWN cell at (col_index, row_index)
SpawnPixel(col_index, row_index) == <<col_index * TILE_SIZE, row_index * TILE_SIZE>>

\* spawn_points of get_random_spawn_point
SpawnPoints(ma) ==
    UNION {{SpawnPixel(c - 1, r - 1) : c \in {k \in 1..Len(ma[r]) : ma[r][k] = SPAWN}} :
              r \in 1..Len(ma)}

\* the values get_random_spawn_point can return
SpawnChoices(ma) ==
    IF SpawnPoints(ma) = {} THEN {<<0, 0>>} ELSE SpawnPoints(ma)

\* start_x, start_y = get_random_spawn_point(current_map); Player(start_x, ...)
SpawnPlayer ==
    /\ pc = "spawn"
    /\ \E p \in SpawnChoices(Grid(map_array)) :
        /\ start' = p
        /\ world_x' = Q(p[1])
        /\ world_y' = Q(p[2])
    /\ current_speed' = Q(WALK_SPEED)
    /\ current_direction' = "down"
    /\ change_x' = Q(0)
    /\ change_y' = Q(0)
    /\ pc' = "input"
    /\ UNCHANGED <<map_name, map_array, height, width, action_state, dx, dy, cameraVars>>

\* ----------------------------------------------------------------- input
\* the speed selected by the sprint action
SpeedFor(st) == IF st["sprint"] THEN Q(SPRINT_SPEED) ELSE Q(WALK_SPEED)

\* one "if is_pressed(action): change = value; direction = action" statement
PressStep(s, held, axis, value, direction) ==
    IF held THEN [s EXCEPT ![axis] = value, !.dir = direction] ELSE s

\* the four statements of handle_input, in program order, first wins
HandleMovesFirstWins(st, speed, dir0) ==
    LET s0 == [cx |-> Q(0), cy |-> Q(0), dir |-> dir0]
        s1 == PressStep(s0, st["down"], "cy", speed, "down")
        s2 == PressStep(s1, st["up"], "cy", QNeg(speed), "up")
        s3 == PressStep(s2, st["right"], "cx", speed, "right")
        s4 == PressStep(s3, st["left"], "cx", QNeg(speed), "left")
    IN  s4

\* change_x, change_y and current_direction after handle_input
HandleMoves(st, speed, dir0) ==
    LET s0 == [cx |-> Q(0), cy |-> Q(0), dir |-> dir0]
        s1 == PressStep(s0, st["left"], "cx", QNeg(speed), "left")
        s2 == PressStep(s1, st["right"], "cx", speed, "right")
        s3 == PressStep(s2, st["up"], "cy", QNeg(speed), "up")
        s4 == PressStep(s3, st["down"], "cy", speed, "down")
    IN  s4

\* input_manager.update(): every action is reset, then set from the keys
\* held; player.handle_input(input_manager) reads the new snapshot
HandleInput ==
    /\ pc = "input"
    /\ action_state' \in [Actions -> BOOLEAN]
    /\ current_speed' = SpeedFor(action_state')
    /\ LET m == HandleMoves(action_state', SpeedFor(action_state'), current_direction)
       IN  /\ change_x' = m.cx
           /\ change_y' = m.cy
           /\ current_direction' = m.dir
    /\ pc' = "update"
    /\ UNCHANGED <<mapVars, world_x, world_y, dx, dy, cameraVars>>

\* ---------------------------------------------------------------- update
\* (dx, dy) with every move taken unscaled
DisplacementUnscaled(cx, cy, speed) == <<cx, cy>>

\* (dx, dy) of Player.update: a diagonal move is scaled by speed / |change|
Displacement(cx, cy, speed) ==
    LET mag_sq == QAdd(QMul(cx, cx), QMul(cy, cy))
    IN  IF QSign(mag_sq) > 0
        THEN IF QSign(cx) # 0 /\ QSign(cy) # 0
             THEN LET scaling_factor == QDiv(speed, QSqrt(mag_sq))
                  IN  <<QMul(cx, scaling_factor), QMul(cy, scaling_factor)>>
             ELSE <<cx, cy>>
        ELSE <<Q(0), Q(0)>>

\* the four sampled tiles, in the order _check_collision visits them
Corners(next_x, next_y) ==
    LET tile_x1 == QFloorDiv(next_x, TILE_SIZE)
        tile_y1 == QFloorDiv(next_y, TILE_SIZE)
        tile_x2 == QFloorDiv(QAdd(next_x, Q(rect_width - 1)), TILE_SIZE)
        tile_y2 == QFloorDiv(QAdd(next_y, Q(rect_height - 1)), TILE_SIZE)
    IN  <<<<tile_x1, tile_y1>>, <<tile_x1, tile_y2>>,
          <<tile_x2, tile_y1>>, <<tile_x2, tile_y2>>>>

\* the top-left tile alone
CornersTopLeft(next_x, next_y) ==
    <<<<QFloorDiv(next_x, TILE_SIZE), QFloorDiv(next_y, TILE_SIZE)>>>>

\* the loop of _check_collision from corner i on: "hit" (return True),
\* "clear" (return False) or "IndexError" (map_array[ty][tx] past a short row)
RECURSIVE ScanCorners(_, _, _, _, _)
ScanCorners(ma, h, w, cs, i) ==
    IF i > Len(cs) THEN "clear"
    ELSE LET tx == cs[i][1]
             ty == cs[i][2]
         IN  IF 0 <= ty /\ ty < h /\ 0 <= tx /\ tx < w
             THEN IF tx + 1 > Len(ma[ty + 1]) THEN "IndexError"
                  ELSE IF ma[ty + 1][tx + 1] = WALL THEN "hit"
                  ELSE ScanCorners(ma, h, w, cs, i + 1)
             ELSE ScanCorners(ma, h, w, cs, i + 1)

CheckCollisionTopLeft(ma, h, w, next_x, next_y) ==
    ScanCorners(ma, h, w, CornersTopLeft(next_x, next_y), 1)

\* Player._check_collision
CheckCollision(ma, h, w, next_x, next_y) ==
    ScanCorners(ma, h, w, Corners(next_x, next_y), 1)

\* the two collision tests of update with the y test skipped after a blocked x
ResolveCoupled(ma, h, w, x, y, d) ==
    LET hx == CheckCollision(ma, h, w, QAdd(x, d[1]), y)
        x1 == IF hx = "clear" THEN QAdd(x, d[1]) ELSE x
        hy == IF hx = "clear" THEN CheckCollision(ma, h, w, x1, QAdd(y, d[2])) ELSE "hit"
        y1 == IF hy = "clear" THEN QAdd(y, d[2]) ELSE y
    IN  IF hx = "IndexError" THEN [err |-> TRUE, x |-> x, y |-> y]
        ELSE IF hy = "IndexError" THEN [err |-> TRUE, x |-> x1, y |-> y]
        ELSE [err |-> FALSE, x |-> x1, y |-> y1]

\* the two collision tests of update: x first, then y from the new x
Resolve(ma, h, w, x, y, d) ==
    LET hx == CheckCollision(ma, h, w, QAdd(x, d[1]), y)
        x1 == IF hx = "clear" THEN QAdd(x, d[1]) ELSE x
        hy == CheckCollision(ma, h, w, x1, QAdd(y, d[2]))
        y1 == IF hy = "clear" THEN QAdd(y, d[2]) ELSE y
    IN  IF hx = "IndexError" THEN [err |-> TRUE, x |-> x, y |-> y]
        ELSE IF hy = "IndexError" THEN [err |-> TRUE, x |-> x1, y |-> y]
        ELSE [err |-> FALSE, x |-> x1, y |-> y1]

\* the clamp against the map size alone
ClampNoSize(v, tiles, size) == QMax(Q(0), QMin(v, Q(tiles * TILE_SIZE)))

\* max(0, min(v, tiles * TILE_SIZE - size))
Clamp(v, tiles, size) == QMax(Q(0), QMin(v, Q(tiles * TILE_SIZE - size)))

\* the position update leaves, before the clamp
Moved(ma, h, w, x, y, cx, cy, d) ==
    IF QSign(QAdd(QMul(cx, cx), QMul(cy, cy))) > 0
    THEN Resolve(ma, h, w, x, y, d)
    ELSE [err |-> FALSE, x |-> x, y |-> y]

\* Player.update, no exception
Update ==
    /\ pc = "update"
    /\ LET d == Displacement(change_x, change_y, current_speed)
           m == Moved(Grid(map_array), height, width, world_x, world_y, change_x, change_y, d)
       IN  /\ ~m.err
           /\ Abs(m.x[2]) <= MaxDiag
           /\ Abs(m.y[2]) <= MaxDiag
           /\ dx' = d[1]
           /\ dy' = d[2]
           /\ world_x' = Clamp(m.x, width, rect_width)
           /\ world_y' = Clamp(m.y, height, rect_height)
    /\ pc' = "camera"
    /\ UNCHANGED <<mapVars, action_state, current_speed, current_direction,
                   change_x, change_y, cameraVars>>

\* Player.update leaving by the IndexError of _check_collision
UpdateIndexError ==
    /\ pc = "update"
    /\ LET d == Displacement(change_x, change_y, current_speed)
           m == Moved(Grid(map_array), height, width, world_x, world_y, change_x, change_y, d)
       IN  /\ m.err
           /\ dx' = d[1]
           /\ dy' = d[2]
           /\ world_x' = m.x
           /\ world_y' = m.y
    /\ pc' = "crashed"
    /\ UNCHANGED <<mapVars, action_state, current_speed, current_direction,
                   change_x, change_y, cameraVars>>

\* ---------------------------------------------------------------- camera
\* camera_offset = CAMERA - player.world
CameraTarget(focus, world) == QSub(Q(focus), world)

\* the target offset kept as it is
CameraAxisUnclamped(target, map_pixels, screen) == target

\* the offset clamped to the map, whatever the map size
CameraAxisClampOnly(target, map_pixels, screen) ==
    QMin(Q(0), QMax(target, Q(screen - map_pixels)))

\* "Clamp Camera": a map smaller than the screen is centred
CameraAxis(target, map_pixels, screen) ==
    IF map_pixels < screen
    THEN Q((screen - map_pixels) \div 2)
    ELSE QMin(Q(0), QMax(target, Q(screen - map_pixels)))

map_width_pixels == width * TILE_SIZE
map_height_pixels == height * TILE_SIZE

\* the camera block of the main loop (dx and dy, locals of the update call
\* that has returned, are gone)
Camera ==
    /\ pc = "camera"
    /\ dx' = Q(0)
    /\ dy' = Q(0)
    /\ camera_offset_x' =
           CameraAxis(CameraTarget(CAMERA_X, world_x), map_width_pixels, SCREEN_WIDTH)
    /\ camera_offset_y' =
           CameraAxis(CameraTarget(CAMERA_Y, world_y), map_height_pixels, SCREEN_HEIGHT)
    /\ pc' = "draw"
    /\ UNCHANGED <<mapVars, action_state, world_x, world_y, current_speed,
                   current_direction, change_x, change_y>>

\* ------------------------------------------------------------------ draw
\* the cells Map.draw reads, as (row_index, col_index)
VisibleCells(h, w, off_x, off_y) ==
    LET cols_visible == SCREEN_WIDTH \div TILE_SIZE + 1
        rows_visible == SCREEN_HEIGHT \div TILE_SIZE + 1
        fr == QFloorDiv(QNeg(off_y), TILE_SIZE)
        fc == QFloorDiv(QNeg(off_x), TILE_SIZE)
        start_row == IF fr > 0 THEN fr ELSE 0
        start_col == IF fc > 0 THEN fc ELSE 0
        end_row == IF h < start_row + rows_visible THEN h ELSE start_row + rows_visible
        end_col == IF w < start_col + cols_visible THEN w ELSE start_col + cols_visible
    IN  (start_row..(end_row - 1)) \X (start_col..(end_col - 1))

\* map_array[row_index][col_index] raises IndexError for some visible cell
DrawRaises ==
    \E rc \in VisibleCells(height, width, camera_offset_x, camera_offset_y) :
        rc[2] + 1 > Len(Grid(map_array)[rc[1] + 1])

\* Map.draw; the loop then starts the next frame (the QUIT event that ends
\* the loop is left out: the model follows the loop while it runs)
Draw ==
    /\ pc = "draw"
    /\ ~DrawRaises
    /\ pc' = "input"
    /\ UNCHANGED <<mapVars, action_state, playerVars, cameraVars>>

DrawIndexError ==
    /\ pc = "draw"
    /\ DrawRaises
    /\ pc' = "crashed"
    /\ UNCHANGED <<mapVars, action_state, playerVars, cameraVars>>

Next ==
    \/ MapInit
    \/ SpawnPlayer
    \/ HandleInput
    \/ Update
    \/ UpdateIndexError
    \/ Camera
    \/ Draw
    \/ DrawIndexError

Spec == Init /\ [][Next]_vars

\* ================================================================ claims
QAbs(x) == IF QSign(x) < 0 THEN QNeg(x) ELSE x
QLeq(x, y) == ~QLess(y, x)

TheGrid == MAP_COLLECTION[map_name]
Built == map_array # "None"
Rectangular == IsRectangular(TheGrid)

\* update has returned in this frame
Updated == pc \in {"camera", "draw"}

\* the in-bounds tiles under the four corners of the box at (x, y)
CornerTiles(x, y) ==
    {c \in {Corners(x, y)[i] : i \in 1..4} :
        0 <= c[1] /\ c[1] < width /\ 0 <= c[2] /\ c[2] < height}

\* some in-bounds corner of the box at (x, y) lies in a WALL tile
SampleHitsWall(x, y) ==
    \E c \in CornerTiles(x, y) : TheGrid[c[2] + 1][c[1] + 1] = WALL

\* C1: after every Player.update on a rectangular map the player's position
\* lies in [0, width*TILE_SIZE - rect.width] x [0, height*TILE_SIZE - rect.height].
C1_PositionInBounds ==
    (Updated /\ Rectangular) =>
        /\ QLeq(Q(0), world_x)
        /\ QLeq(world_x, Q(width * TILE_SIZE - rect_width))
        /\ QLeq(Q(0), world_y)
        /\ QLeq(world_y, Q(height * TILE_SIZE - rect_height))

\* the player pushed left over the map edge (nothing blocks there) and the
\* clamp put it back at 0
C1_Witness ==
    /\ map_name = "tall"
    /\ pc = "camera"
    /\ action_state["left"]
    /\ QSign(dx) < 0
    /\ world_x = Q(0)

\* C2: in an update with a diagonal intent the axes are resolved one by one.
\* If the sample at (world_x + dx, world_y) hits a wall, world_x is kept and
\* the y move is committed (then clamped) when the sample at (world_x,
\* world_y + dy) is clear; if the x move is clear it is committed (then
\* clamped) whether or not the y sample, taken from the new x, hits a wall,
\* and a y sample that hits a wall leaves world_y as it was.
C2_AxesIndependent ==
    [][(pc = "update" /\ pc' = "camera" /\ Rectangular
            /\ QSign(change_x) # 0 /\ QSign(change_y) # 0) =>
        LET nx == QAdd(world_x, dx')
            ny == QAdd(world_y, dy')
        IN  /\ SampleHitsWall(nx, world_y) =>
                /\ world_x' = world_x
                /\ ~SampleHitsWall(world_x, ny) =>
                       world_y' = Clamp(ny, height, rect_height)
                /\ SampleHitsWall(world_x, ny) => world_y' = world_y
            /\ ~SampleHitsWall(nx, world_y) =>
                /\ world_x' = Clamp(nx, width, rect_width)
                /\ SampleHitsWall(nx, ny) => world_y' = world_y
                /\ ~SampleHitsWall(nx, ny) =>
                       world_y' = Clamp(ny, height, rect_height)]_vars

\* a diagonal walk from (0, 2) in the corner map: the wall at tile (1, 1)
\* rejects the x move, the y move slides on
C2_Witness ==
    /\ map_name = "corner"
    /\ pc = "camera"
    /\ dx = <<0, 1, 1>>
    /\ dy = <<0, 1, 1>>
    /\ world_x = Q(0)
    /\ world_y = <<2, 1, 1>>

\* C3: on an axis where the map is at least as large as the screen the camera
\* offset lies in [screen - map_pixels, 0], so screen pixels 0 and screen - 1
\* show world coordinates inside [0, map_pixels).
C3_CameraInsideMap ==
    pc = "draw" =>
        /\ map_width_pixels >= SCREEN_WIDTH =>
            /\ QLeq(Q(SCREEN_WIDTH - map_width_pixels), camera_offset_x)
            /\ QLeq(camera_offset_x, Q(0))
            /\ QLeq(Q(0), QNeg(camera_offset_x))
            /\ QLess(QSub(Q(SCREEN_WIDTH - 1), camera_offset_x), Q(map_width_pixels))
        /\ map_height_pixels >= SCREEN_HEIGHT =>
            /\ QLeq(Q(SCREEN_HEIGHT - map_height_pixels), camera_offset_y)
            /\ QLeq(camera_offset_y, Q(0))
            /\ QLeq(Q(0), QNeg(camera_offset_y))
            /\ QLess(QSub(Q(SCREEN_HEIGHT - 1), camera_offset_y), Q(map_height_pixels))

\* the player at the far corner of the large map: both targets (-320, -240)
\* are below the range and are clamped to screen - map_pixels
C3_Witness ==
    /\ map_name = "large"
    /\ pc = "draw"
    /\ world_x = Q(20 * TILE_SIZE)
    /\ camera_offset_x = Q(SCREEN_WIDTH - map_width_pixels)
    /\ camera_offset_y = Q(SCREEN_HEIGHT - map_height_pixels)

\* C4: on an axis where the map is smaller than the screen the camera offset
\* is (screen - map_pixels) / 2, wherever the player is.
C4_SmallMapCentred ==
    pc = "draw" =>
        /\ map_width_pixels < SCREEN_WIDTH =>
               QMul(camera_offset_x, Q(2)) = Q(SCREEN_WIDTH - map_width_pixels)
        /\ map_height_pixels < SCREEN_HEIGHT =>
               QMul(camera_offset_y, Q(2)) = Q(SCREEN_HEIGHT - map_height_pixels)

\* the player has walked away from its spawn point in the 3 x 4 map
C4_Witness ==
    /\ map_name = "onespawn"
    /\ pc = "draw"
    /\ world_x # Q(start[1])
    /\ camera_offset_x = Q(272)
    /\ camera_offset_y = Q(176)

\* C5: with one horizontal and one vertical direction active, the candidate
\* displacement has |dx| = |dy| and dx^2 + dy^2 = current_speed^2.
C5_DiagonalMagnitude ==
    (pc = "camera"
        /\ (action_state["left"] \/ action_state["right"])
        /\ (action_state["up"] \/ action_state["down"])) =>
        /\ QAbs(dx) = QAbs(dy)
        /\ QAdd(QMul(dx, dx), QMul(dy, dy)) = QMul(current_speed, current_speed)
        /\ current_speed \in {Q(WALK_SPEED), Q(SPRINT_SPEED)}

\* a sprint up and to the right: (dx, dy) = (2*sqrt 2, -2*sqrt 2)
C5_Witness ==
    /\ pc = "camera"
    /\ action_state["sprint"] /\ action_state["right"] /\ action_state["up"]
    /\ ~action_state["left"] /\ ~action_state["down"]
    /\ dx = <<0, 2, 1>>
    /\ dy = <<0, -2, 1>>

\* the (col, row) cells of the grid that hold SPAWN
SpawnCells ==
    UNION {{<<c - 1, r - 1>> : c \in {k \in 1..Len(TheGrid[r]) : TheGrid[r][k] = SPAWN}} :
              r \in 1..Len(TheGrid)}

\* C6: get_random_spawn_point returns (0, 0) on a grid without SPAWN cell,
\* else (col*TILE_SIZE, row*TILE_SIZE) of some SPAWN cell; with the one SPAWN
\* cell at (col 2, row 3) it returns (64, 96).
C6_SpawnPoint ==
    pc \notin {"construct", "spawn"} =>
        /\ SpawnCells = {} => start = <<0, 0>>
        /\ SpawnCells # {} =>
               \E cr \in SpawnCells : start = <<cr[1] * 32, cr[2] * 32>>
        /\ SpawnCells = {<<2, 3>>} => start = <<64, 96>>

C6_Witness ==
    /\ pc = "input"
    /\ SpawnCells = {<<2, 3>>}
    /\ start = <<64, 96>>
    /\ world_x = Q(64)
    /\ world_y = Q(96)

\* C7: a map definition whose rows differ in length is refused: no grid is
\* built from it and the session goes no further than the construction.
C7_MalformedMapRefused ==
    ~Rectangular => (pc = "construct" /\ ~Built /\ width = 0 /\ height = 0)

\* C8: handle_input lets the last active direction in the order left, right,
\* up, down win: right beats left on x, down beats up on y, the facing is the
\* last active one of the four, and with none active the facing is kept.
C8_LastWriterWins ==
    [][(pc = "input" /\ pc' = "update") =>
        LET st == action_state'
            sp == current_speed'
        IN  /\ sp = (IF st["sprint"] THEN Q(SPRINT_SPEED) ELSE Q(WALK_SPEED))
            /\ change_x' = (IF st["right"] THEN sp
                            ELSE IF st["left"] THEN QNeg(sp) ELSE Q(0))
            /\ change_y' = (IF st["down"] THEN sp
                            ELSE IF st["up"] THEN QNeg(sp) ELSE Q(0))
            /\ current_direction' =
                   (IF st["down"] THEN "down"
                    ELSE IF st["up"] THEN "up"
                    ELSE IF st["right"] THEN "right"
                    ELSE IF st["left"] THEN "left"
                    ELSE current_direction)]_vars

\* left, right and up held together: the move is right and up, facing up
C8_Witness ==
    /\ pc = "update"
    /\ action_state["left"] /\ action_state["right"] /\ action_state["up"]
    /\ ~action_state["down"] /\ ~action_state["sprint"]
    /\ change_x = Q(WALK_SPEED)
    /\ change_y = Q(-WALK_SPEED)
    /\ current_direction = "up"

\* C9: the camera offset is the clamp of focus - (world + rect size / 2), the
\* offset that draws the player's centre at the focus point.
C9_CameraCentresPlayer ==
    pc = "draw" =>
        /\ camera_offset_x =
               CameraAxis(QSub(Q(CAMERA_X), QAdd(world_x, Q(rect_width \div 2))),
                          map_width_pixels, SCREEN_WIDTH)
        /\ camera_offset_y =
               CameraAxis(QSub(Q(CAMERA_Y), QAdd(world_y, Q(rect_height \div 2))),
                          map_height_pixels, SCREEN_HEIGHT)

\* no corner of the player's box at its start position lies in a wall
StartClear == ~SampleHitsWall(Q(start[1]), Q(start[2]))

\* C10: on a rectangular map, a player that starts with no corner of its box
\* in a wall has no corner of its box in a wall after any number of ticks.
C10_NeverInsideWall ==
    (pc \in {"input", "update", "camera", "draw"} /\ Rectangular /\ StartClear) =>
        ~SampleHitsWall(world_x, world_y)

\* the one-column map: a sprint to the right from its only column is taken
\* to x = 4 over the map edge and clamped back to 0, below the wall of row 6
C10_Witness ==
    /\ map_name = "tall"
    /\ pc = "camera"
    /\ StartClear
    /\ action_state["sprint"]
    /\ dx = Q(SPRINT_SPEED)
    /\ world_x = Q(0)
    /\ world_y = Q(7 * TILE_SIZE)

====
